---- MODULE Spec2Model ----
(***************************************************************************)
(* A model of scripts/python_repl_server.py: the framed transport loop     *)
(* (main), the request dispatcher (handle_message) and the evaluator       *)
(* (execute_python with capture_output) working on the process-wide        *)
(* session dictionary `state`.                                             *)
(*                                                                         *)
(* Texts are TLA+ strings, handled character by character with Len, SubSeq *)
(* and \o.  The input stream is chosen by the environment one read at a    *)
(* time: what readline() and read(n) return is drawn from bounded sets.    *)
(* sys.stdin is a text stream with universal newlines, so a line ends in   *)
(* "\n" and the end of the stream reads as the empty text.                 *)
(***************************************************************************)
EXTENDS Integers, Sequences, FiniteSets, TLC

VARIABLES
    pc,                   \* position of main: the statement about to run
    content_length_line,  \* main's local: the stripped header line
    content_length,       \* main's local: the declared length
    message,              \* main's local: the payload read
    response,             \* main's local: the envelope handle_message returned as text
    state,                \* the module global `state`, the session
    sys_streams,          \* sys.stdout and sys.stderr
    raw_line,             \* what the last readline() at line 154 returned
    eof,                  \* sys.stdin has been read to its end
    fault,                \* the exception that left main, "" while none did
    nLines,               \* number of lines readline() returned at line 154
    inLog,                \* history: the id member of each payload read at line 168
    outLog,               \* history: the frames written to sys.stdout and flushed
    trace                 \* history: what the last handle_message call did

vars == << pc, content_length_line, content_length, message, response, state,
           sys_streams, raw_line, eof, fault, nLines, inLog, outLog, trace >>

-----------------------------------------------------------------------------
(* Bounds *)

\* The input stream holds at most this many lines at header position.
MaxLines == 3

-----------------------------------------------------------------------------
(* str methods used by main *)

Whitespace == {" ", "\t", "\n", "\r"}

Digits == <<"0", "1", "2", "3", "4", "5", "6", "7", "8", "9">>

CharAt(s, i) == SubSeq(s, i, i)

RECURSIVE lstrip(_)
lstrip(s) ==
    IF Len(s) > 0 /\ CharAt(s, 1) \in Whitespace
    THEN lstrip(SubSeq(s, 2, Len(s)))
    ELSE s

RECURSIVE rstrip(_)
rstrip(s) ==
    IF Len(s) > 0 /\ CharAt(s, Len(s)) \in Whitespace
    THEN rstrip(SubSeq(s, 1, Len(s) - 1))
    ELSE s

\* str.strip()
strip(s) == rstrip(lstrip(s))

\* str.startswith(prefix)
startswith(s, prefix) ==
    Len(s) >= Len(prefix) /\ SubSeq(s, 1, Len(prefix)) = prefix

\* index of the first occurrence of the one-character text c in s at or after
\* position i, Len(s) + 1 when there is none
RECURSIVE find(_, _, _)
find(s, c, i) ==
    IF i > Len(s) THEN Len(s) + 1
    ELSE IF CharAt(s, i) = c THEN i
    ELSE find(s, c, i + 1)

\* s.split(":")[1] for a text that holds a colon: what stands between the
\* first colon and the second one (or the end)
split_colon_1(s) ==
    LET a == find(s, ":", 1)
        b == find(s, ":", a + 1)
    IN  SubSeq(s, a + 1, b - 1)

DigitValue(c) == (CHOOSE i \in DOMAIN Digits : Digits[i] = c) - 1

IsDigit(c) == \E i \in DOMAIN Digits : Digits[i] = c

\* int(s) accepts a text of decimal digits with surrounding whitespace;
\* anything else is a ValueError
RECURSIVE int_digits(_)
int_digits(t) ==
    IF Len(t) = 0 THEN 0
    ELSE 10 * int_digits(SubSeq(t, 1, Len(t) - 1)) + DigitValue(CharAt(t, Len(t)))

\* int(s): an optional sign is accepted too
int_sign(s) ==
    LET t == strip(s)
    IN  IF Len(t) > 0 /\ CharAt(t, 1) \in {"+", "-"}
        THEN [neg |-> CharAt(t, 1) = "-", digits |-> SubSeq(t, 2, Len(t))]
        ELSE [neg |-> FALSE, digits |-> t]

int_ok(s) ==
    LET d == int_sign(s).digits
    IN  Len(d) > 0 /\ \A i \in 1..Len(d) : IsDigit(CharAt(d, i))

int(s) ==
    LET p == int_sign(s)
    IN  IF p.neg THEN 0 - int_digits(p.digits) ELSE int_digits(p.digits)

-----------------------------------------------------------------------------
(* Python values *)

\* None, a str and an int.  A dict is a TLA+ record (a function of its keys);
\* a str that can never be None (captured output) is a plain TLA+ string.
None == [py |-> "NoneType"]

PyStr(s) == [py |-> "str", s |-> s]

PyInt(n) == [py |-> "int", n |-> n]

PyList(items) == [py |-> "list", items |-> items]

EmptyDict == [k \in {} |-> None]

\* only a dict has the method get: on any other value `.get` is an
\* AttributeError
is_dict(v) == "py" \notin DOMAIN v

\* dict.get(key, default)
get(d, key, default) == IF key \in DOMAIN d THEN d[key] ELSE default

\* str(v), as the f-string of line 121 formats the tool name
str(v) ==
    CASE v.py = "NoneType" -> "None"
      [] v.py = "str" -> v.s
      [] v.py = "int" -> ToString(v.n)

\* repr(v) of an int
repr(v) == ToString(v.n)

-----------------------------------------------------------------------------
(* The submitted code.  eval(code, globals) and exec(code, globals) first   *)
(* compile the text, which rejects it with a SyntaxError before any of it   *)
(* runs, and then run it.  A snippet is described by whether it compiles    *)
(* as an expression, whether it compiles as statements, and the steps it    *)
(* takes when it runs, in order.                                            *)

Lit(n) == [var |-> "", lit |-> n]

Var(v) == [var |-> v, lit |-> 0]

\* name = a opr b (opr "" : name = a)
Bind(name, a, opr, b) ==
    [op |-> "bind", name |-> name, a |-> a, opr |-> opr, b |-> b, text |-> ""]

\* the value a opr b
Value(a, opr, b) ==
    [op |-> "value", name |-> "", a |-> a, opr |-> opr, b |-> b, text |-> ""]

\* print(text), whose value is None
Output(text) ==
    [op |-> "print", name |-> "", a |-> Lit(0), opr |-> "", b |-> Lit(0), text |-> text]

\* the literal None
NoneLiteral ==
    [op |-> "none", name |-> "", a |-> Lit(0), opr |-> "", b |-> Lit(0), text |-> ""]

\* a call that raises exc: exit() raises SystemExit, eval('1 +') a SyntaxError
Raise(exc) ==
    [op |-> "raise", name |-> "", a |-> Lit(0), opr |-> "", b |-> Lit(0), text |-> exc]

\* os.system(command) for a command that writes text: the child process
\* inherits file descriptor 1, the standard output of the process, and writes
\* there; the value is the exit status 0
System(text) ==
    [op |-> "system", name |-> "", a |-> Lit(0), opr |-> "", b |-> Lit(0), text |-> text]

Snippet(expr, stmt, body) == [expr |-> expr, stmt |-> stmt, body |-> body]

\* The snippets submitted, by their source text.
compile(code) ==
    CASE code = "1+1" -> Snippet(TRUE, TRUE, <<Value(Lit(1), "+", Lit(1))>>)
      [] code = "x + 1" -> Snippet(TRUE, TRUE, <<Value(Var("x"), "+", Lit(1))>>)
      [] code = "x = 5" -> Snippet(FALSE, TRUE, <<Bind("x", Lit(5), "", Lit(0))>>)
      [] code = "1//0" -> Snippet(TRUE, TRUE, <<Value(Lit(1), "//", Lit(0))>>)
      [] code = "print('hi')" -> Snippet(TRUE, TRUE, <<Output("hi")>>)
      [] code = "None" -> Snippet(TRUE, TRUE, <<NoneLiteral>>)
      [] code = "exit()" -> Snippet(TRUE, TRUE, <<Raise("SystemExit")>>)
      [] code = "__import__('os').system('echo hi')" ->
            Snippet(TRUE, TRUE, <<System("hi\n")>>)
      [] code = "print('hi') or eval('1 +')" ->
            Snippet(TRUE, TRUE, <<Output("hi"), Raise("SyntaxError")>>)
      [] code = "(x := x + 1) + eval('(')" ->
            Snippet(TRUE, TRUE, <<Bind("x", Var("x"), "+", Lit(1)), Raise("SyntaxError")>>)
      [] code = "x = 7\n1//0" ->
            Snippet(FALSE, TRUE, <<Bind("x", Lit(7), "", Lit(0)), Value(Lit(1), "//", Lit(0))>>)
      [] code = "1 +" -> Snippet(FALSE, FALSE, << >>)
      [] code = "" -> Snippet(FALSE, TRUE, << >>)

\* The session is a set of bindings <<identifier, value>>, one per identifier.
\* eval and exec put the key __builtins__ into a globals dict that lacks it;
\* its value, the builtins module, is written 0.
bound(env, name) == \E b \in env : b[1] = name

lookup(env, name) == (CHOOSE b \in env : b[1] = name)[2]

setitem(env, name, v) == {b \in env : b[1] # name} \cup {<<name, v>>}

with_builtins(env) ==
    IF bound(env, "__builtins__") THEN env ELSE setitem(env, "__builtins__", 0)

\* BaseOnly with SyntaxError taken for an exception `except Exception` lets
\* pass (C20).
BaseOnly_with_syntax ==
    {"SystemExit", "KeyboardInterrupt", "GeneratorExit", "SyntaxError"}

\* Exceptions that are no subclass of Exception: `except Exception` lets
\* them pass.
BaseOnly == {"SystemExit", "KeyboardInterrupt", "GeneratorExit"}

\* One operand: a NameError for an unbound identifier.
operand(env, o) ==
    IF o.var = "" THEN [exc |-> "", n |-> o.lit]
    ELSE IF bound(env, o.var) THEN [exc |-> "", n |-> lookup(env, o.var)]
    ELSE [exc |-> "NameError", n |-> 0]

\* x opr y over the integers, for operands already looked up
apply(x, opr, y) ==
    IF x.exc # "" THEN x
    ELSE IF opr = "" THEN x
    ELSE IF y.exc # "" THEN y
    ELSE IF opr = "+" THEN [exc |-> "", n |-> x.n + y.n]
    ELSE IF y.n = 0 THEN [exc |-> "ZeroDivisionError", n |-> 0]
    ELSE [exc |-> "", n |-> x.n \div y.n]

\* a opr b
binary(env, a, opr, b) == apply(operand(env, a), opr, operand(env, b))

\* One step s of a snippet, v being the value of its expression.  r is the
\* run so far: env the globals, out what was printed to sys.stdout, wire what
\* was written to file descriptor 1, value the value of the last step, exc
\* the exception that ended the run ("" while none).
step(s, v, r) ==
    CASE s.op = "print" -> [r EXCEPT !.out = r.out \o s.text \o "\n", !.value = None]
      [] s.op = "system" -> [r EXCEPT !.wire = r.wire \o s.text, !.value = PyInt(0)]
      [] s.op = "none" -> [r EXCEPT !.value = None]
      [] s.op = "raise" -> [r EXCEPT !.exc = s.text]
      [] s.op = "value" /\ v.exc # "" -> [r EXCEPT !.exc = v.exc]
      [] s.op = "value" /\ v.exc = "" -> [r EXCEPT !.value = PyInt(v.n)]
      [] s.op = "bind" /\ v.exc # "" -> [r EXCEPT !.exc = v.exc]
      [] s.op = "bind" /\ v.exc = "" ->
            [r EXCEPT !.env = setitem(r.env, s.name, v.n), !.value = PyInt(v.n)]

\* Running the steps of a snippet from step i on, until one raises.
RECURSIVE run(_, _, _)
run(body, i, r) ==
    IF i > Len(body) \/ r.exc # "" THEN r
    ELSE run(body, i + 1,
             step(body[i], binary(r.env, body[i].a, body[i].opr, body[i].b), r))

\* The run before its first step; ran tells whether any of the snippet ran.
begin(globals, out) ==
    [env |-> with_builtins(globals), out |-> out, wire |-> "", value |-> None,
     exc |-> "", ran |-> FALSE]

\* A compiled snippet c run in mode "eval" or "exec" from the run r0.
run_compiled(mode, c, r0) ==
    IF (mode = "eval" /\ ~c.expr) \/ (mode = "exec" /\ ~c.stmt)
    THEN [r0 EXCEPT !.exc = "SyntaxError"]
    ELSE run(c.body, 1, [r0 EXCEPT !.ran = TRUE])

\* eval(code, globals) for mode "eval", exec(code, globals) for mode "exec",
\* with out the text already in the capture buffer: the key __builtins__ is
\* set, a code that is no str is a TypeError, the text is compiled, and it
\* is run.
interpret(mode, code, globals, out) ==
    IF code.py # "str" THEN [begin(globals, out) EXCEPT !.exc = "TypeError"]
    ELSE run_compiled(mode, compile(code.s), begin(globals, out))

-----------------------------------------------------------------------------
(* capture_output and execute_python *)

\* The streams of the process the code writes to.
Transport == [stdout |-> "sys.__stdout__", stderr |-> "sys.__stderr__"]

Buffers == [stdout |-> "new_out", stderr |-> "new_err"]

\* capture_output, entering: two fresh StringIO buffers become sys.stdout and
\* sys.stderr, the streams in place are kept in old_out, old_err.
capture_enter(streams) ==
    [new_out |-> "", new_err |-> "", old |-> streams, streams |-> Buffers]

\* capture_output, leaving (the finally clause): the kept streams are put back
capture_exit(cap) == cap.old

\* traceback.format_exc() for the exception being handled, its frames left out
format_exc(exc) == "Traceback (most recent call last):\n" \o exc \o "\n"

\* ExecutionResult without the value: result is None on every path (C10).
ExecutionResult_no_value(success, output, error, result) ==
    [success |-> success, output |-> output, error |-> error, result |-> None]

\* The dict execute_python returns.
ExecutionResult(success, output, error, result) ==
    [success |-> success, output |-> output, error |-> error, result |-> result]

\* What execute_python leaves: last is the run that ended the outer try block.
\*   raised   the exception that leaves the call ("" when it returns)
\*   ret      the dict returned
\*   globals  global_vars after the call (the dict is changed in place)
\*   streams  sys.stdout, sys.stderr after the call
\*   eval_ran, exec_ran  whether eval, exec ran any of the snippet
\*   exc      the exception that ended the outer try block ("" when none)
\*   code     the argument code
\*   wire     what the snippet wrote to file descriptor 1
left(cap, code, last, eval_ran, exec_ran, raised, ret) ==
    [raised |-> raised, ret |-> ret, globals |-> last.env,
     streams |-> capture_exit(cap), eval_ran |-> eval_ran, exec_ran |-> exec_ran,
     exc |-> last.exc, code |-> code, wire |-> last.wire]

\* except_exception with the bindings of the session dropped when the
\* snippet fails (C19).
except_exception_rollback(cap, code, last, eval_ran, exec_ran) ==
    IF last.exc \notin BaseOnly
    THEN left(cap, code, [last EXCEPT !.env = with_builtins({})], eval_ran, exec_ran, "",
              ExecutionResult(FALSE, last.out,
                              cap.new_err \o "\n" \o format_exc(last.exc), None))
    ELSE left(cap, code, last, eval_ran, exec_ran, last.exc, EmptyDict)

\* Lines 50-57: `except Exception` builds the failure dict; an exception
\* that is no Exception leaves the call.
except_exception(cap, code, last, eval_ran, exec_ran) ==
    IF last.exc \notin BaseOnly
    THEN left(cap, code, last, eval_ran, exec_ran, "",
              ExecutionResult(FALSE, last.out,
                              cap.new_err \o "\n" \o format_exc(last.exc), None))
    ELSE left(cap, code, last, eval_ran, exec_ran, last.exc, EmptyDict)

\* except_syntax_error with the value of the last statement reported as the
\* result (C11).
except_syntax_error_echo(cap, code, e, x) ==
    IF x.exc = ""
    THEN left(cap, code, x, e.ran, x.ran, "",
              ExecutionResult(TRUE, x.out, cap.new_err,
                              IF x.value # None THEN PyStr(repr(x.value)) ELSE None))
    ELSE except_exception(cap, code, x, e.ran, x.ran)

\* Lines 41-49: `except SyntaxError`, entered after the run e of eval, with
\* x the run of exec(code, global_vars).
except_syntax_error(cap, code, e, x) ==
    IF x.exc = ""
    THEN left(cap, code, x, e.ran, x.ran, "",
              ExecutionResult(TRUE, x.out, cap.new_err, None))
    ELSE except_exception(cap, code, x, e.ran, x.ran)

\* Lines 33-57, with e the run of eval(code, global_vars).
after_eval(cap, code, e) ==
    IF e.exc = ""
    THEN left(cap, code, e, e.ran, FALSE, "",
              ExecutionResult(TRUE, e.out, cap.new_err,
                              IF e.value # None THEN PyStr(repr(e.value)) ELSE None))
    ELSE IF e.exc = "SyntaxError"
    THEN except_syntax_error(cap, code, e,
            [interpret("exec", code, e.env, e.out) EXCEPT !.wire = e.wire \o @])
    ELSE except_exception(cap, code, e, e.ran, FALSE)

\* with capture_output() as (stdout, stderr): lines 30-57
with_capture(cap, code, global_vars) ==
    after_eval(cap, code, interpret("eval", code, global_vars, cap.new_out))

\* execute_python(code, global_vars), called with `streams` in place.
execute_python(code, global_vars, streams) ==
    with_capture(capture_enter(streams), code, global_vars)

-----------------------------------------------------------------------------
(* The payloads: the texts read(n) returns, and what json.loads makes of    *)
(* them.                                                                    *)

ExecuteText(idmember, code) ==
    "{" \o idmember \o "\"method\":\"tools/execute\",\"params\":{\"tool\":\"execute\","
        \o "\"arguments\":{\"code\":\"" \o code \o "\"}}}"

ExecuteDoc(idmember, code) ==
    idmember @@ [method |-> PyStr("tools/execute"),
                 params |-> [tool |-> PyStr("execute"),
                             arguments |-> [code |-> PyStr(code)]]]

Execute(idtext, idmember, jsoncode, code) ==
    [text |-> ExecuteText(idtext, jsoncode), doc |-> ExecuteDoc(idmember, code)]

Id1 == [id |-> PyInt(1)]

IdA == [id |-> PyStr("a")]

\* JSON documents and the values json.loads returns for them.
Corpus ==
    << [text |-> "[1]", doc |-> PyList(<<PyInt(1)>>)],
       [text |-> "7", doc |-> PyInt(7)],
       [text |-> "{\"id\":1}", doc |-> Id1],
       [text |-> "{\"id\":1,\"method\":\"initialize\"}",
        doc |-> Id1 @@ [method |-> PyStr("initialize")]],
       [text |-> "{\"id\":\"a\",\"method\":\"tools/list\"}",
        doc |-> IdA @@ [method |-> PyStr("tools/list")]],
       [text |-> "{\"method\":\"ping\"}", doc |-> [method |-> PyStr("ping")]],
       [text |-> "{\"id\":1,\"method\":\"tools/execute\",\"params\":\"zz\"}",
        doc |-> Id1 @@ [method |-> PyStr("tools/execute"), params |-> PyStr("zz")]],
       [text |-> "{\"id\":\"a\",\"method\":\"tools/execute\",\"params\":{\"tool\":\"foo\"}}",
        doc |-> IdA @@ [method |-> PyStr("tools/execute"),
                        params |-> [tool |-> PyStr("foo")]]],
       [text |-> "{\"method\":\"tools/execute\",\"params\":{\"arguments\":{\"code\":\"1+1\"}}}",
        doc |-> [method |-> PyStr("tools/execute"),
                 params |-> [arguments |-> [code |-> PyStr("1+1")]]]],
       [text |-> "{\"id\":1,\"method\":\"tools/execute\"}",
        doc |-> Id1 @@ [method |-> PyStr("tools/execute")]],
       [text |-> "{\"id\":1,\"method\":\"tools/execute\",\"params\":{\"tool\":\"execute\",\"arguments\":5}}",
        doc |-> Id1 @@ [method |-> PyStr("tools/execute"),
                        params |-> [tool |-> PyStr("execute"), arguments |-> PyInt(5)]]],
       [text |-> "{\"id\":1,\"method\":\"tools/execute\",\"params\":{\"tool\":\"execute\",\"arguments\":{\"code\":5}}}",
        doc |-> Id1 @@ [method |-> PyStr("tools/execute"),
                        params |-> [tool |-> PyStr("execute"),
                                    arguments |-> [code |-> PyInt(5)]]]],
       [text |-> "{\"id\":\"a\",\"method\":\"tools/execute\",\"params\":{\"tool\":\"execute\"}}",
        doc |-> IdA @@ [method |-> PyStr("tools/execute"),
                        params |-> [tool |-> PyStr("execute")]]],
       Execute("\"id\":1,", Id1, "1+1", "1+1"),
       Execute("\"id\":\"a\",", IdA, "x + 1", "x + 1"),
       Execute("\"id\":1,", Id1, "x = 5", "x = 5"),
       Execute("\"id\":1,", Id1, "1//0", "1//0"),
       Execute("", EmptyDict, "print('hi')", "print('hi')"),
       Execute("\"id\":1,", Id1, "None", "None"),
       Execute("\"id\":1,", Id1, "exit()", "exit()"),
       Execute("\"id\":1,", Id1, "__import__('os').system('echo hi')",
               "__import__('os').system('echo hi')"),
       Execute("\"id\":\"a\",", IdA, "print('hi') or eval('1 +')", "print('hi') or eval('1 +')"),
       Execute("\"id\":1,", Id1, "(x := x + 1) + eval('(')", "(x := x + 1) + eval('(')"),
       Execute("\"id\":1,", Id1, "x = 7\\n1//0", "x = 7\n1//0"),
       Execute("\"id\":\"a\",", IdA, "1 +", "1 +") >>

\* Texts that are no JSON document.
Garbage == {"", "{oops", "{\"id\":1"}

Payloads == {Corpus[i].text : i \in DOMAIN Corpus} \cup Garbage

\* json.loads(text): the value, or a JSONDecodeError
json_loads(text) ==
    IF \E i \in DOMAIN Corpus : Corpus[i].text = text
    THEN [exc |-> "", v |-> Corpus[CHOOSE i \in DOMAIN Corpus : Corpus[i].text = text].doc]
    ELSE [exc |-> "JSONDecodeError", v |-> None]

-----------------------------------------------------------------------------
(* handle_message *)

InitializeResult ==
    [protocolVersion |-> "2024-11-05",
     capabilities |-> EmptyDict,
     serverInfo |-> [name |-> "python-repl", version |-> "1.0.0"]]

ToolsListResult ==
    [tools |-> << [name |-> "execute",
                   description |-> "Execute Python code",
                   schema |-> [type |-> "object",
                               properties |-> [code |-> [type |-> "string",
                                   description |-> "The Python code to execute"]],
                               required |-> <<"code">>]] >>]

ResultResponse(message_id, result) ==
    [jsonrpc |-> "2.0", id |-> message_id, result |-> result]

\* ErrorResponse with a null result member next to the error (C9).
ErrorResponse_with_result(message_id, code, text) ==
    [jsonrpc |-> "2.0", id |-> message_id, result |-> None,
     error |-> [code |-> code, message |-> text]]

ErrorResponse(message_id, code, text) ==
    [jsonrpc |-> "2.0", id |-> message_id, error |-> [code |-> code, message |-> text]]

\* str(e) of the AttributeError raised by v.get
no_get(v) == "'" \o v.py \o "' object has no attribute 'get'"

\* str(e) of a JSONDecodeError
decode_error == "Expecting value: line 1 column 1 (char 0)"

\* NoCall with the session set up anew, as line 149 does once (C6).
NoCall_reset(global_vars, streams) ==
    [raised |-> "", ret |-> EmptyDict, globals |-> {}, streams |-> streams,
     eval_ran |-> FALSE, exec_ran |-> FALSE, exc |-> "", code |-> None, wire |-> ""]

\* What the call leaves when nothing ran the evaluator.
NoCall(global_vars, streams) ==
    [raised |-> "", ret |-> EmptyDict, globals |-> global_vars, streams |-> streams,
     eval_ran |-> FALSE, exec_ran |-> FALSE, exc |-> "", code |-> None, wire |-> ""]

\* The except clause of lines 133-143, entered with message_json bound to v
\* (bound tells whether line 62 assigned it) for an exception whose text is
\* text: line 137 reads the id with v.get, which raises again when v is no dict.
handle_except(bound_json, v, text, call) ==
    IF ~bound_json THEN
        [raised |-> "", response |-> ErrorResponse(None, -32603, text), call |-> call,
         route |-> "except"]
    ELSE IF ~is_dict(v) THEN
        [raised |-> "AttributeError", response |-> EmptyDict, call |-> call,
         route |-> "except"]
    ELSE
        [raised |-> "", response |-> ErrorResponse(get(v, "id", None), -32603, text),
         call |-> call, route |-> "except"]

\* is_execute_tool with an absent tool taken for "execute" (C7).
is_execute_tool_default(tool_name) == tool_name \in {PyStr("execute"), None}

\* Line 107: tool_name == "execute"
is_execute_tool(tool_name) == tool_name = PyStr("execute")

\* Lines 109-114, with result what the call of execute_python left.
execute_route(message_id, result) ==
    IF result.raised # ""
    THEN [raised |-> result.raised, response |-> EmptyDict, call |-> result,
          route |-> "execute"]
    ELSE [raised |-> "", response |-> ResultResponse(message_id, result.ret),
          call |-> result, route |-> "execute"]

\* A response built without calling execute_python.
routed(envelope, route, none) ==
    [raised |-> "", response |-> envelope, call |-> none, route |-> route]

\* Lines 103-123, for a message_json that is a dict with params, its id
\* message_id, and none what a call-free branch leaves.
tools_execute(message_json, params, message_id, none, global_vars, streams) ==
    IF ~is_dict(params) THEN handle_except(TRUE, message_json, no_get(params), none)
    ELSE IF is_execute_tool(get(params, "tool", None)) THEN
        IF ~is_dict(get(params, "arguments", EmptyDict)) THEN
            handle_except(TRUE, message_json,
                          no_get(get(params, "arguments", EmptyDict)), none)
        ELSE execute_route(message_id,
                execute_python(get(get(params, "arguments", EmptyDict), "code", PyStr("")),
                               global_vars, streams))
    ELSE routed(ErrorResponse(message_id, -32601,
                    "Tool not found: " \o str(get(params, "tool", None))),
                "tool not found", none)

\* route_message with a method that has no route answered as an error (C13).
route_message_strict(message_json, method, message_id, none, global_vars, streams) ==
    IF method = PyStr("initialize") THEN
        routed(ResultResponse(message_id, InitializeResult), "initialize", none)
    ELSE IF method = PyStr("tools/list") THEN
        routed(ResultResponse(message_id, ToolsListResult), "tools/list", none)
    ELSE IF method = PyStr("tools/execute") THEN
        tools_execute(message_json, get(message_json, "params", EmptyDict), message_id,
                      none, global_vars, streams)
    ELSE routed(ErrorResponse(message_id, -32601, "Method not found"), "other", none)

\* Lines 63-130, for a message_json that is a dict.
route_message(message_json, method, message_id, none, global_vars, streams) ==
    IF method = PyStr("initialize") THEN
        routed(ResultResponse(message_id, InitializeResult), "initialize", none)
    ELSE IF method = PyStr("tools/list") THEN
        routed(ResultResponse(message_id, ToolsListResult), "tools/list", none)
    ELSE IF method = PyStr("tools/execute") THEN
        tools_execute(message_json, get(message_json, "params", EmptyDict), message_id,
                      none, global_vars, streams)
    ELSE routed(ResultResponse(message_id, EmptyDict), "other", none)

\* Lines 61-143, with parsed what json.loads made of the message.
handle_parsed(parsed, none, global_vars, streams) ==
    IF parsed.exc # "" THEN handle_except(FALSE, None, decode_error, none)
    ELSE IF ~is_dict(parsed.v) THEN handle_except(TRUE, parsed.v, no_get(parsed.v), none)
    ELSE route_message(parsed.v, get(parsed.v, "method", None), get(parsed.v, "id", None),
                       none, global_vars, streams)

\* handle_message(message) with the session global_vars and `streams` in place.
\*   raised    the exception that leaves the call ("" when it returns)
\*   response  the envelope whose json.dumps text is returned
\*   call      what the call of execute_python did (NoCall when there was none)
\*   route     the branch that built the response
handle_message(text, global_vars, streams) ==
    handle_parsed(json_loads(text), NoCall(global_vars, streams), global_vars, streams)

-----------------------------------------------------------------------------
(* main *)

\* What readline() can return at header position: the empty text at the end
\* of the stream, otherwise a line with its terminator.
HeaderLines ==
    {"Content-Length: " \o ToString(Len(p)) \o "\n" : p \in Payloads}
        \cup {"Content-Length: 99\n", "Content-Length: -1\n"}

StrayLines == {"\n", "  \n", "junk\n", "content-length: 3\n", "Content-Length: ab\n"}

RawLines == HeaderLines \cup StrayLines

\* What read(n) returns when the stream ends before n characters were read.
Tails == {"", "{\"id\":1", "{\"method\":\"ping\"}"}

NoTrace ==
    [seq |-> 0, route |-> "", evaluator |-> FALSE, code |-> None, eval_ran |-> FALSE,
     exec_ran |-> FALSE, exc |-> "", before |-> {}, wire |-> ""]

Init ==
    /\ pc = "read_header"
    /\ content_length_line = ""
    /\ content_length = 0
    /\ message = ""
    /\ response = EmptyDict
    /\ state = {}
    /\ sys_streams = Transport
    /\ raw_line = ""
    /\ eof = FALSE
    /\ fault = ""
    /\ nLines = 0
    /\ inLog = << >>
    /\ outLog = << >>
    /\ trace = NoTrace

\* Lines 154-162: read a line, strip it, leave the loop on an empty one, go
\* round again on one that does not start with the prefix, else parse the
\* length.
ReadHeader ==
    /\ pc = "read_header"
    /\ \E raw \in (IF eof \/ nLines >= MaxLines THEN {""} ELSE RawLines \cup {""}) :
        LET line == strip(raw)
            field == split_colon_1(line)
        IN  /\ raw_line' = raw
            /\ content_length_line' = line
            /\ eof' = (eof \/ raw = "")
            /\ nLines' = IF raw = "" THEN nLines ELSE nLines + 1
            /\ IF line = "" THEN
                    /\ pc' = "exit"
                    /\ UNCHANGED << content_length, fault >>
               ELSE IF ~startswith(line, "Content-Length:") THEN
                    /\ pc' = "read_header"
                    /\ UNCHANGED << content_length, fault >>
               ELSE IF ~int_ok(field) THEN
                    /\ pc' = "raised"
                    /\ fault' = "ValueError"
                    /\ UNCHANGED content_length
               ELSE
                    /\ pc' = "skip_line"
                    /\ content_length' = int(field)
                    /\ UNCHANGED fault
    /\ UNCHANGED << message, response, state, sys_streams, inLog, outLog, trace >>

\* Line 165: one more line is read and dropped, whatever it holds.
SkipLine ==
    /\ pc = "skip_line"
    /\ \E raw \in (IF eof THEN {""} ELSE {"\n", "junk\n", ""}) :
        eof' = (eof \/ raw = "")
    /\ pc' = "read_body"
    /\ UNCHANGED << content_length_line, content_length, message, response, state,
                    sys_streams, raw_line, fault, nLines, inLog, outLog, trace >>

\* The id member of a payload, None when it has none or is no JSON object.
request_id(text) ==
    LET parsed == json_loads(text)
    IN  IF parsed.exc = "" /\ is_dict(parsed.v) THEN get(parsed.v, "id", None) ELSE None

\* Line 168: sys.stdin.read(content_length) returns content_length characters,
\* or all that is left when the stream ends first (or the length is negative).
ReadBody ==
    /\ pc = "read_body"
    /\ \E text \in Payloads \cup Tails :
        /\ \/ eof /\ text = "" /\ eof' = TRUE
           \/ /\ ~eof /\ text \in Payloads
              /\ content_length >= 0 /\ Len(text) = content_length
              /\ eof' = FALSE
           \/ /\ ~eof /\ text \in Tails
              /\ content_length < 0 \/ Len(text) < content_length
              /\ eof' = TRUE
        /\ message' = text
        /\ inLog' = Append(inLog, request_id(text))
    /\ pc' = "dispatch"
    /\ UNCHANGED << content_length_line, content_length, response, state, sys_streams,
                    raw_line, fault, nLines, outLog, trace >>

\* Line 171: response = handle_message(message)
Dispatch ==
    /\ pc = "dispatch"
    /\ LET r == handle_message(message, state, sys_streams)
       IN  /\ state' = r.call.globals
           /\ sys_streams' = r.call.streams
           /\ trace' = [seq |-> Len(inLog), route |-> r.route,
                        evaluator |-> (r.route = "execute"),
                        code |-> r.call.code,
                        eval_ran |-> r.call.eval_ran, exec_ran |-> r.call.exec_ran,
                        exc |-> r.call.exc, before |-> state,
                        wire |-> r.call.wire]
           /\ IF r.raised # ""
              THEN /\ pc' = "raised"
                   /\ fault' = r.raised
                   /\ UNCHANGED response
              ELSE /\ pc' = "respond"
                   /\ response' = r.response
                   /\ UNCHANGED fault
    /\ UNCHANGED << content_length_line, content_length, message, raw_line, eof, nLines,
                    inLog, outLog >>

\* write_frame with the frame put before what was written (C2).
write_frame_front(written, frame) == <<frame>> \o written

\* Lines 174-176: the frame is written to sys.stdout and flushed, which puts
\* it after everything written before.
write_frame(written, frame) == Append(written, frame)

\* Lines 174-176: the header and the response are written to sys.stdout and
\* the stream is flushed.  The frame is recorded by the request it answers,
\* the id it carries and the stream that took it.
Respond ==
    /\ pc = "respond"
    /\ outLog' = write_frame(outLog, [req |-> trace.seq, id |-> response.id,
                                      stream |-> sys_streams.stdout])
    /\ pc' = "read_header"
    /\ UNCHANGED << content_length_line, content_length, message, response, state,
                    sys_streams, raw_line, eof, fault, nLines, inLog, trace >>

Next == ReadHeader \/ SkipLine \/ ReadBody \/ Dispatch \/ Respond

Spec == Init /\ [][Next]_vars

-----------------------------------------------------------------------------
(* Properties *)

\* The payload read last has been through handle_message and its response
\* has not been written yet: the state handle_message leaves behind.
JustDispatched == trace.seq = Len(inLog) /\ Len(outLog) < Len(inLog)

\* The document of the payload read last, when it is a JSON object.
IsRequest == json_loads(message).exc = "" /\ is_dict(json_loads(message).v)

Request == json_loads(message).v

\* C1: every frame whose payload was read is answered by exactly one
\* response frame before the loop does anything else: whenever main is not
\* between reading a payload and writing its response, as many frames were
\* written as payloads were read.
C1_EveryFrameAnswered ==
    pc \notin {"dispatch", "respond"} => Len(outLog) = Len(inLog)

\* C2: responses are written in the order the requests were read, the k-th
\* frame written answers the k-th payload read and carries its id, at most
\* one payload is unanswered at any time, and main reads from sys.stdin only
\* when every payload read so far has been answered.
C2_OrderedNoPipelining ==
    /\ Len(inLog) - Len(outLog) \in {0, 1}
    /\ \A k \in 1..Len(outLog) : outLog[k].req = k /\ outLog[k].id = inLog[k]
    /\ pc \in {"read_header", "skip_line", "read_body"} => Len(outLog) = Len(inLog)

\* Three frames with distinct ids were read and answered.
C2_Witness ==
    /\ Len(outLog) = 3
    /\ outLog[1].id = PyInt(1) /\ outLog[2].id = PyStr("a") /\ outLog[3].id = None

\* The header pattern `Content-Length: <N>`.
MatchesHeader(line) ==
    startswith(line, "Content-Length:") /\ int_ok(split_colon_1(line))

\* C3: a line read at header position that does not match
\* `Content-Length: <N>`, an empty or whitespace-only line included, is
\* dropped: main is back at reading a header, and no exception left it.
C3_StrayLineSkipped ==
    (raw_line # "" /\ ~MatchesHeader(strip(raw_line)))
        => (pc = "read_header" /\ fault = "")

\* C4: a fault raised while the evaluator runs submitted code, of any kind,
\* is answered with a result envelope holding success = false, no result
\* value and a non-empty error text; no exception leaves handle_message.
C4_FaultCaptured ==
    (JustDispatched /\ trace.evaluator /\ trace.exc # "")
        => /\ pc = "respond" /\ fault = ""
           /\ "result" \in DOMAIN response
           /\ response.result.success = FALSE
           /\ response.result.result = None
           /\ Len(response.result.error) > 0

\* C5: a snippet that compiles as an expression is run by eval only, never
\* a second time by exec, whatever exception its run raises.
C5_ExpressionRunOnce ==
    (JustDispatched /\ trace.evaluator /\ trace.code.py = "str"
        /\ compile(trace.code.s).expr)
        => (trace.eval_ran /\ ~trace.exec_ran)

\* The snippet has a step that binds name.
Binds(code, name) ==
    \E i \in DOMAIN compile(code).body :
        compile(code).body[i].op = "bind" /\ compile(code).body[i].name = name

\* The request asks for the tool "execute" to run code.
RunsCode(code) ==
    /\ IsRequest
    /\ get(Request, "method", None) = PyStr("tools/execute")
    /\ is_dict(get(Request, "params", EmptyDict))
    /\ get(get(Request, "params", EmptyDict), "tool", None) = PyStr("execute")
    /\ is_dict(get(get(Request, "params", EmptyDict), "arguments", EmptyDict))
    /\ get(get(get(Request, "params", EmptyDict), "arguments", EmptyDict),
           "code", PyStr("")) = PyStr(code)

\* C6: the session starts empty and only a call of the evaluator changes it;
\* a binding stays, with its value, through every step but an evaluator
\* call whose snippet binds the same identifier; and with x bound to 5 the
\* snippet `x + 1` is answered success = true, result "6".
C6_SessionStep ==
    /\ state' # state => (pc = "dispatch" /\ trace'.evaluator)
    /\ \A b \in state :
          b \in state' \/ (/\ pc = "dispatch" /\ trace'.evaluator
                           /\ trace'.code.py = "str" /\ Binds(trace'.code.s, b[1]))
    /\ (pc = "dispatch" /\ RunsCode("x + 1") /\ <<"x", 5>> \in state)
          => /\ pc' = "respond"
             /\ response'.result =
                    [success |-> TRUE, output |-> "", error |-> "", result |-> PyStr("6")]
             /\ state' = state

C6_SessionPersists == [][C6_SessionStep]_vars

\* `x = 5` ran, at least one request was answered in between, and `x + 1`
\* was answered 6.
C6_Witness ==
    /\ Len(inLog) = 3 /\ JustDispatched /\ pc = "respond"
    /\ trace.code = PyStr("x + 1")
    /\ <<"x", 5>> \in state
    /\ response.result.result = PyStr("6")

\* The request is tools/execute with a mapping as params (or none) whose
\* tool is not "execute".
NamesOtherTool ==
    /\ IsRequest
    /\ get(Request, "method", None) = PyStr("tools/execute")
    /\ is_dict(get(Request, "params", EmptyDict))
    /\ get(get(Request, "params", EmptyDict), "tool", None) # PyStr("execute")

\* C7: a tools/execute request whose tool is not "execute" (an absent tool
\* included) is answered with error -32601 and the message "Tool not found: "
\* followed by the tool name, the evaluator is not called, the session is
\* as before, and main goes on to write the response and read the next
\* header.
C7_State ==
    (JustDispatched /\ NamesOtherTool)
        => /\ pc = "respond" /\ fault = ""
           /\ response = ErrorResponse(request_id(message), -32601,
                  "Tool not found: "
                      \o str(get(get(Request, "params", EmptyDict), "tool", None)))
           /\ ~trace.evaluator
           /\ state = trace.before

C7_Step ==
    (pc = "respond" /\ NamesOtherTool)
        => (pc' = "read_header" /\ Len(outLog') = Len(outLog) + 1 /\ fault' = "")

C7_UnknownTool == []C7_State /\ [][C7_Step]_vars

\* An unknown tool was answered and main is reading the next header.
C7_Witness ==
    /\ pc = "read_header" /\ NamesOtherTool
    /\ Len(outLog) = Len(inLog) /\ Len(inLog) > 0 /\ trace.seq = Len(inLog)
    /\ response.error.message = "Tool not found: foo"

\* C8: the response carries the id of the request, and null when the payload
\* has no id or none can be read from it (not JSON, or JSON that is no
\* object); a response is produced in each of these cases.  (Stated for the
\* requests that do not run the evaluator.)
C8_IdEchoed ==
    (JustDispatched /\ ~trace.evaluator)
        => (pc = "respond" /\ response.id = request_id(message))

\* C9: every envelope handle_message returns holds exactly one of result and
\* error, and an error holds an integer code, -32601 or -32603, and a text.
C9_ResultXorError ==
    response # EmptyDict
        => /\ ("result" \in DOMAIN response) # ("error" \in DOMAIN response)
           /\ "id" \in DOMAIN response
           /\ "error" \in DOMAIN response
                => /\ DOMAIN response.error = {"code", "message"}
                   /\ response.error.code \in {-32601, -32603}
                   /\ response.error.message \in STRING

\* An internal-error envelope is about to be written.
C9_Witness ==
    /\ pc = "respond" /\ JustDispatched
    /\ "error" \in DOMAIN response /\ response.error.code = -32603

\* The text of an int, as Python writes it.
RECURSIVE decimal(_)
decimal(n) ==
    IF n < 0 THEN "-" \o decimal(0 - n)
    ELSE IF n < 10 THEN Digits[n + 1]
    ELSE decimal(n \div 10) \o Digits[(n % 10) + 1]

\* The value of the side-effect-free expressions among the snippets.
PureValue(code) ==
    IF code = "1+1" THEN 2 ELSE lookup(state, "x") + 1

PureExpression ==
    \/ RunsCode("1+1")
    \/ RunsCode("x + 1") /\ bound(state, "x")

ViaExpression ==
    trace.evaluator /\ trace.eval_ran /\ ~trace.exec_ran /\ trace.exc = ""

\* The evaluator call of the last request returned from line 44, the
\* statement path.
ViaStatement == trace.evaluator /\ trace.exec_ran /\ trace.exc = ""

\* What eval(code, state) evaluates to for the snippet of the last request,
\* in the session as it was before the call.
ExpressionValue == interpret("eval", trace.code, trace.before, "").value

\* C11: the ExecutionResult holds a result value exactly when the call
\* returned through the expression path with success and the expression's
\* value is not None, and it is then the repr of that value; the result is
\* None on the statement path, for an expression whose value is None, and
\* for every failure.
C11_ResultPresence ==
    (JustDispatched /\ trace.evaluator /\ pc = "respond")
        => /\ (response.result.result # None)
                <=> (ViaExpression /\ response.result.success /\ ExpressionValue # None)
           /\ response.result.result # None
                => response.result.result = PyStr(repr(ExpressionValue))
           /\ ViaStatement => (response.result.success /\ response.result.result = None)
           /\ ~response.result.success => response.result.result = None

\* The statement `x = 5` bound x through the statement path and the
\* ExecutionResult carries no result value.
C11_Witness ==
    /\ JustDispatched /\ pc = "respond" /\ RunsCode("x = 5")
    /\ ViaStatement /\ <<"x", 5>> \in state
    /\ response.result.success /\ response.result.result = None

\* The payload read last is no well-formed envelope: it is no JSON text, or
\* JSON that is no object, or an object without the member method.
Malformed ==
    \/ json_loads(message).exc # ""
    \/ ~is_dict(json_loads(message).v)
    \/ "method" \notin DOMAIN json_loads(message).v

\* C12: a payload that is no well-formed envelope, or an envelope without
\* the member method, is answered with an error envelope of code -32603 and
\* not with a result.
C12_MalformedIsInternalError ==
    (JustDispatched /\ Malformed)
        => /\ pc = "respond" /\ fault = ""
           /\ "error" \in DOMAIN response /\ "result" \notin DOMAIN response
           /\ response.error.code = -32603

\* The request's method is none of initialize, tools/list and tools/execute
\* (an absent method reads as None at line 63 and is one of these).
OtherMethod ==
    /\ IsRequest
    /\ get(Request, "method", None)
          \notin {PyStr("initialize"), PyStr("tools/list"), PyStr("tools/execute")}

\* C13: a request whose method is none of initialize, tools/list and
\* tools/execute is answered with the result {} under its id, never with an
\* error, the evaluator is not called, and the session is as it was.
C13_OtherMethodEmptyResult ==
    (JustDispatched /\ OtherMethod)
        => /\ pc = "respond" /\ fault = ""
           /\ response = ResultResponse(get(Request, "id", None), EmptyDict)
           /\ "error" \notin DOMAIN response
           /\ ~trace.evaluator
           /\ state = trace.before

\* The method ping was answered with {} while the session holds a binding.
C13_Witness ==
    /\ JustDispatched /\ pc = "respond" /\ OtherMethod
    /\ get(Request, "method", None) = PyStr("ping")
    /\ response.result = EmptyDict /\ <<"x", 5>> \in state

\* main has ended: the loop was left at line 156, or an exception left main.
Terminated == pc \in {"exit", "raised"}

\* C14: main ends only at line 156, while reading a header, and only because
\* readline() returned the empty text of a closed stream; no line, no
\* payload and no faulty request ends it otherwise.
C14_ExitOnlyOnStreamClosure ==
    Terminated => (pc = "exit" /\ fault = "" /\ raw_line = "" /\ eof)

\* The streams capture_output replaced are back in place after every
\* evaluator call, one that an exception left included, and every frame was
\* written to the standard output of the process.
StreamsRestored ==
    /\ sys_streams = Transport
    /\ \A k \in DOMAIN outLog : outLog[k].stream = Transport.stdout

\* C15: the streams capture_output replaced are back in place after every
\* evaluator call, however it ended, so that the stream main writes a frame
\* to and the streams in place when it reads a header are the ones of the
\* process; the output of a snippet is in the ExecutionResult of its own
\* call only; and nothing a snippet writes reaches the standard output of
\* the process, which carries the frames.
C15_CaptureScoped ==
    /\ StreamsRestored
    /\ (JustDispatched /\ pc = "respond" /\ RunsCode("print('hi')"))
          => response.result.output = "hi\n"
    /\ (JustDispatched /\ pc = "respond" /\ trace.evaluator /\ RunsCode("1+1"))
          => response.result.output = ""
    /\ trace.wire = ""

\* C16: the payload handed to handle_message has exactly the length its
\* header declared; a payload cut short by the end of the stream is not
\* dispatched.
C16_PayloadHasDeclaredLength ==
    pc \in {"dispatch", "respond"} => Len(message) = content_length

\* The line starts with the prefix `Content-Length:` and what follows the
\* colon is no integer.
BadLength(line) ==
    startswith(line, "Content-Length:") /\ ~int_ok(split_colon_1(line))

\* C17: a line at header position with the prefix `Content-Length:` and a
\* length that is no integer is skipped: main reads the next line, no
\* exception is raised and the loop goes on.
C17_BadLengthSkipped ==
    BadLength(strip(raw_line)) => (pc = "read_header" /\ fault = "")

\* main is sequential code that keeps running: a step that can be taken is
\* taken.  Every readline() and read() returns because the stream is finite,
\* and every snippet modelled terminates.
FairSpec == Spec /\ WF_vars(Next)

\* C18: with a finite input stream and snippets that terminate, main
\* eventually leaves the loop at line 156 with no exception raised and
\* every payload read answered, and writes no frame afterwards.
C18_EventuallyExitsCleanly ==
    /\ <>(pc = "exit" /\ fault = "" /\ Len(outLog) = Len(inLog))
    /\ [][pc = "exit" => outLog' = outLog]_vars

\* C19: the statements `x = 7` and `1//0` submitted as one snippet are
\* answered success = false with no result value, and the binding of x made
\* before the ZeroDivisionError stays in the session; a later request
\* `x + 1` is answered 8.
C19_State ==
    (JustDispatched /\ RunsCode("x = 7\n1//0"))
        => /\ pc = "respond" /\ trace.exc = "ZeroDivisionError"
           /\ response.result.success = FALSE /\ response.result.result = None
           /\ <<"x", 7>> \in state

C19_Step ==
    (pc = "dispatch" /\ RunsCode("x + 1") /\ <<"x", 7>> \in state)
        => /\ pc' = "respond"
           /\ response'.result.success /\ response'.result.result = PyStr("8")

C19_NoRollback == []C19_State /\ [][C19_Step]_vars

\* Two payloads were read: the first bound x to 7 and failed (no other
\* single snippet binds x to 7), the second, `x + 1`, was answered 8.
C19_Witness ==
    /\ Len(inLog) = 2 /\ JustDispatched /\ pc = "respond"
    /\ RunsCode("x + 1") /\ <<"x", 7>> \in trace.before
    /\ response.result.result = PyStr("8")

\* The last request ran the evaluator on a text that compiles neither as an
\* expression nor as statements.
RejectedTwice ==
    /\ JustDispatched /\ trace.evaluator /\ trace.code.py = "str"
    /\ ~compile(trace.code.s).expr /\ ~compile(trace.code.s).stmt

\* What C20 says of such a request but for the session: neither eval nor
\* exec ran any of the snippet, the SyntaxError of exec is caught at line 50,
\* and the response is a result envelope holding success = false, no result
\* value and the traceback as error text; no error envelope is produced.
RejectedAsFailure ==
    /\ pc = "respond" /\ fault = ""
    /\ ~trace.eval_ran /\ ~trace.exec_ran /\ trace.exc = "SyntaxError"
    /\ "result" \in DOMAIN response /\ "error" \notin DOMAIN response
    /\ response.result =
          ExecutionResult(FALSE, "", "\n" \o format_exc("SyntaxError"), None)

\* C20 as stated: and the session is unchanged.
C20_Original ==
    RejectedTwice => (RejectedAsFailure /\ state = trace.before)

\* C20 amended: and the session holds the bindings it held, and the key
\* __builtins__, which eval puts into a session that lacks it before it
\* compiles the text.
C20_Amended ==
    RejectedTwice => (RejectedAsFailure /\ state = with_builtins(trace.before))

\* `1 +` was the first snippet submitted: the session, empty before the
\* call, holds the key __builtins__ and nothing else.
C20_Witness ==
    /\ RejectedTwice /\ RunsCode("1 +") /\ pc = "respond"
    /\ trace.before = {} /\ state = with_builtins({})
    /\ response.result.success = FALSE

====
